---------------------------- MODULE Spec2Model ----------------------------
(***************************************************************************)
(* State-machine model of the storefront's client-side state holders and   *)
(* of parts of its server side:                                             *)
(*   - the cart store (hooks/useCart.ts) with its persist middleware, its   *)
(*     totals (useCartTotals) and its debounced update (useCartActions),    *)
(*   - the shared Button component,                                         *)
(*   - the checkout wizard (CheckoutForm),                                  *)
(*   - the login form (LoginForm),                                          *)
(*   - buildProductQuery and updateProduct of the products router,          *)
(*   - truncateText (formatters) and extractTokenFromHeader (auth).         *)
(* Every component has its own next-state relation and specification; all  *)
(* specifications start from the same Init, the state after construction.  *)
(*                                                                         *)
(* An optional (possibly undefined) JavaScript value is a sequence of      *)
(* length 0 (undefined) or 1 (the value).                                   *)
(***************************************************************************)
EXTENDS Integers, Sequences, FiniteSets, TLC

VARIABLES
    items,        \* useCart: CartState.items
    isOpen,       \* useCart: CartState.isOpen
    storage,      \* localStorage["e3d-cart-storage"], None when never written
    lastOp,       \* history: the cart operation that ran last
    btnProps,     \* Button: the props of the last render
    btnDom,       \* Button: the rendered <button>: its disabled attribute and children
    clicks,       \* Button: click events the user made on the button
    blockedClicks,\* history: the clicks made while disabled or isLoading was true
    onClickCalls, \* Button: invocations of the onClick handler
    currentStep,  \* CheckoutForm: useState(0)
    isSubmitting, \* CheckoutForm: useState(false)
    orderId,      \* CheckoutForm: useState(null)
    form,         \* CheckoutForm: the react-hook-form values (methods.getValues())
    formErrors,   \* CheckoutForm: formState.errors, as the set of names with an error
    coPc,         \* CheckoutForm: position of handleSubmit: "idle", "fetching", "redirected"
    requestsSent, \* POST /api/orders requests sent so far
    lastRequest,  \* history: the step and termsAccepted value when the last request was sent
    consoleErrors,\* console.error calls made by handleSubmit
    onSuccessIds, \* the order ids onSuccess was called with
    routerPath,   \* the orderId of the success page router.push went to, or None
    lastNav,      \* history: what changed currentStep last: "none", "next", "previous", "tab"
    lastSubmit,   \* history: how the last handleSubmit ended: "none", "ok", "failed"
    loginValues,  \* LoginForm: the react-hook-form values
    loginErrors,  \* LoginForm: formState.errors, as the set of fields with an error
    isLoading,    \* LoginForm: useState(false)
    showPassword, \* LoginForm: useState(false)
    serverError,  \* LoginForm: useState(initialError || null); None is null
    loginPc,      \* LoginForm: position of onSubmit: "idle" or "fetching"
    loginsSent,   \* POST /api/auth/login requests sent so far
    authToken,    \* localStorage["auth-token"], None when never written
    onSuccessCalls, \* LoginForm: calls of the onSuccess prop (the page provides one)
    loginPushes,  \* LoginForm: calls of router.push(redirectUrl)
    lastLogin,    \* history: the response the last onSubmit got, None before the first
    filterInput,  \* products router: the input of getProducts
    where,        \* products router: the where clause of the last query, None before the first
    truncateArgs, \* formatters: the arguments of the last truncateText call, None before the first
    truncated,    \* formatters: what that call returned
    authHeader,   \* auth: the argument of the last extractTokenFromHeader call, None before the first
    extracted,    \* auth: what that call returned: None for null, else the string
    now,          \* the browser's clock, in ms since the page loaded
    timers,       \* the pending setTimeout callbacks: their id, due time and captured arguments
    timerIds,     \* the number of timer ids setTimeout has handed out
    updateItemTimeout, \* window.updateItemTimeout: None (undefined) or a timer id
    calls,        \* history: the debouncedUpdateItem calls made, with their time and arguments
    applied,      \* history: the updateItem calls the timers made, with their time and arguments
    products,     \* database: the product rows, by id
    productImages,\* database: the productImage rows, as the list of images of each product id
    upPc,         \* updateProduct: per request, the await its mutation is suspended at, or "idle"
    upInput,      \* updateProduct: per request, the input of its last mutation, None before it
    upBefore,     \* history: per request, the rows and images when its last mutation started
    lastUpdate,   \* history: per request, how its last mutation ended: "none", "ok", "not found", "failed"
    updates       \* the number of updateProduct mutations started

cartVars == <<items, isOpen, storage, lastOp>>
buttonVars == <<btnProps, btnDom, clicks, blockedClicks, onClickCalls>>
checkoutVars == <<currentStep, isSubmitting, orderId, form, formErrors, coPc,
                  requestsSent, lastRequest, consoleErrors, onSuccessIds, routerPath,
                  lastNav, lastSubmit>>
loginVars == <<loginValues, loginErrors, isLoading, showPassword, serverError, loginPc,
               loginsSent, authToken, onSuccessCalls, loginPushes, lastLogin>>
filterVars == <<filterInput, where>>
formatVars == <<truncateArgs, truncated>>
authVars == <<authHeader, extracted>>
debounceVars == <<now, timers, timerIds, updateItemTimeout, calls, applied>>
productVars == <<products, productImages, upPc, upInput, upBefore, lastUpdate, updates>>

\* What an operation of one component leaves alone: the other components.
serverVars == <<filterVars, formatVars, authVars, productVars>>
notCart == <<buttonVars, checkoutVars, loginVars, serverVars, debounceVars>>
notButton == <<cartVars, checkoutVars, loginVars, serverVars, debounceVars>>
notCheckout == <<buttonVars, loginVars, serverVars, debounceVars>>
notLogin == <<cartVars, buttonVars, checkoutVars, serverVars, debounceVars>>
notFilter == <<cartVars, buttonVars, checkoutVars, loginVars, formatVars, authVars,
               productVars, debounceVars>>
notFormat == <<cartVars, buttonVars, checkoutVars, loginVars, filterVars, authVars,
               productVars, debounceVars>>
notAuth == <<cartVars, buttonVars, checkoutVars, loginVars, filterVars, formatVars,
             productVars, debounceVars>>
notDebounce == <<buttonVars, checkoutVars, loginVars, serverVars>>
notProduct == <<cartVars, buttonVars, checkoutVars, loginVars, filterVars, formatVars,
                authVars, debounceVars>>

-----------------------------------------------------------------------------
(* Bounds and input sets *)

\* Largest item quantity the model lets the cart reach.
MaxQty == 2
\* Most clicks the user makes on the Button.
MaxClicks == 3
\* Most order-creation requests the checkout form sends.
MaxOrders == 2
\* Most login requests the login form sends.
MaxLogins == 3
\* Longest text given to truncateText, and largest length asked of it.
MaxTextLen == 4
\* Longest text after the scheme in an Authorization header.
MaxTokenLen == 3
\* Most debouncedUpdateItem calls made.
MaxCalls == 3
\* Most steps of 100 ms the clock makes.
MaxTicks == 7
\* Most updateProduct mutations started.
MaxUpdates == 3

None == <<>>
Some(v) == <<v>>

ProductIds == {"p1", "p2", "p3"}
Prices == {3, 5}
QtyInputs == {None} \cup {Some(q) : q \in -1..MaxQty}
Quantities == 0..MaxQty

-----------------------------------------------------------------------------
(* Cart store *)

RECURSIVE FindIndexFrom(_, _, _)
FindIndexFrom(s, id, k) ==
    IF k > Len(s) THEN -1
    ELSE IF s[k].id = id THEN k - 1
    ELSE FindIndexFrom(s, id, k + 1)

\* items.findIndex((i) => i.id === id): 0-based index of the first match, or -1
FindIndex(s, id) == FindIndexFrom(s, id, 1)

\* items.filter((item) => item.id !== id)
FilterOut(s, id) == SelectSeq(s, LAMBDA it : it.id # id)

\* items.map((item) => item.id === id ? { ...item, quantity } : item)
BadMapQuantity(s, id, quantity) ==
    [k \in 1..Len(s) |-> [s[k] EXCEPT !.quantity = quantity]]
MapQuantity(s, id, quantity) ==
    [k \in 1..Len(s) |-> IF s[k].id = id THEN [s[k] EXCEPT !.quantity = quantity]
                                          ELSE s[k]]

\* const quantity = item.quantity || 1
QuantityOrDefault(q) == IF q = None \/ q[1] = 0 THEN 1 ELSE q[1]

\* partialize: (state) => ({ items: state.items })
BadPartialize(its, open) == [items |-> its, isOpen |-> open]
partialize(its, open) == [items |-> its]

\* JSON.stringify of the persisted object: zustand wraps the partial state as
\* {state, version}; an item is written as its list of values.
JSONStringify(part) ==
    [state |-> [k \in DOMAIN part |->
                  IF k = "items"
                  THEN [i \in 1..Len(part.items) |->
                          <<part.items[i].id, part.items[i].price, part.items[i].quantity>>]
                  ELSE part[k]],
     version |-> 0]

\* JSON.parse of a stored value, back to the partial state
JSONParse(str) ==
    [k \in DOMAIN str.state |->
        IF k = "items"
        THEN [i \in 1..Len(str.state.items) |->
                [id |-> str.state.items[i][1],
                 price |-> str.state.items[i][2],
                 quantity |-> str.state.items[i][3]]]
        ELSE str.state[k]]

\* persist's set: the store takes the new state and the partialized state is
\* written to localStorage.
PersistSet(newItems, newOpen) ==
    /\ items' = newItems
    /\ isOpen' = newOpen
    /\ storage' = Some(JSONStringify(partialize(newItems, newOpen)))

BadAddItemResult(its, item) ==
    its \o <<[id |-> item.id, price |-> item.price,
              quantity |-> QuantityOrDefault(item.quantity)]>>
AddItemResult(its, item) ==
    LET quantity == QuantityOrDefault(item.quantity)
        existingItemIndex == FindIndex(its, item.id)
    IN  IF existingItemIndex > -1
        THEN [its EXCEPT ![existingItemIndex + 1].quantity = @ + quantity]
        ELSE its \o <<[id |-> item.id, price |-> item.price, quantity |-> quantity]>>

addItemToCart(item) ==
    LET updated == AddItemResult(items, item)
    IN  /\ \A k \in 1..Len(updated) : updated[k].quantity \in Quantities
        /\ PersistSet(updated, IF FindIndex(items, item.id) > -1 THEN isOpen ELSE TRUE)
        /\ lastOp' = "addItem"

addItem(item) ==
    /\ addItemToCart(item)
    /\ UNCHANGED notCart

updateItemInCart(id, quantity) ==
    /\ IF quantity <= 0
       THEN PersistSet(FilterOut(items, id), isOpen)
       ELSE PersistSet(MapQuantity(items, id, quantity), isOpen)
    /\ lastOp' = "updateItem"

updateItem(id, quantity) ==
    /\ updateItemInCart(id, quantity)
    /\ UNCHANGED notCart

removeItem(id) ==
    /\ PersistSet(FilterOut(items, id), isOpen)
    /\ lastOp' = "removeItem"
    /\ UNCHANGED notCart

clearCart ==
    /\ PersistSet(<<>>, isOpen)
    /\ lastOp' = "clearCart"
    /\ UNCHANGED notCart

openCart ==
    /\ PersistSet(items, TRUE)
    /\ lastOp' = "openCart"
    /\ UNCHANGED notCart

closeCart ==
    /\ PersistSet(items, FALSE)
    /\ lastOp' = "closeCart"
    /\ UNCHANGED notCart

toggleCart ==
    /\ PersistSet(items, ~isOpen)
    /\ lastOp' = "toggleCart"
    /\ UNCHANGED notCart

\* The store as create() builds it on a page load: the initial state
\* { items: [], isOpen: false } with the stored partial state merged over it.
Hydrate(stored) ==
    LET initial == [items |-> <<>>, isOpen |-> FALSE]
        part == IF stored = None THEN [x \in {} |-> x] ELSE JSONParse(stored[1])
    IN  [k \in DOMAIN initial |-> IF k \in DOMAIN part THEN part[k] ELSE initial[k]]

Rehydrate ==
    /\ items' = Hydrate(storage).items
    /\ isOpen' = Hydrate(storage).isOpen
    /\ storage' = storage
    /\ lastOp' = "rehydrate"
    /\ UNCHANGED notCart

\* get().items.reduce((count, item) => count + item.quantity, 0)
RECURSIVE ReduceCount(_, _, _)
ReduceCount(s, k, count) ==
    IF k > Len(s) THEN count ELSE ReduceCount(s, k + 1, count + s[k].quantity)

BadGetItemsCount == Len(items)
getItemsCount == ReduceCount(items, 1, 0)

\* get().items.reduce((total, item) => total + item.price * item.quantity, 0)
RECURSIVE ReduceSubtotal(_, _, _)
ReduceSubtotal(s, k, total) ==
    IF k > Len(s) THEN total
    ELSE ReduceSubtotal(s, k + 1, total + s[k].price * s[k].quantity)

getSubtotal == ReduceSubtotal(items, 1, 0)

\* useCartTotals: const shippingRate = 10; const taxRate = 0.07, held here in
\* hundredths so that the amounts stay integers
shippingRate == 10
taxRate == 7

\* const shipping = items.length > 0 ? shippingRate : 0
BadShipping(its) == shippingRate
shipping(its) == IF Len(its) > 0 THEN shippingRate ELSE 0

\* What the hook returns for the current store; the amounts are in hundredths
\* of the currency unit.
useCartTotals ==
    LET subtotal == getSubtotal * 100
        tax == getSubtotal * taxRate
        total == subtotal + shipping(items) * 100 + tax
    IN  [subtotal |-> subtotal, shipping |-> shipping(items) * 100, tax |-> tax,
         total |-> total, itemsCount |-> getItemsCount]

CartInit ==
    /\ items = <<>>
    /\ isOpen = FALSE
    /\ storage = None
    /\ lastOp = "init"

CartNext ==
    \/ \E id \in ProductIds, p \in Prices, q \in QtyInputs :
          addItem([id |-> id, price |-> p, quantity |-> q])
    \/ \E id \in ProductIds, q \in -1..MaxQty : updateItem(id, q)
    \/ \E id \in ProductIds : removeItem(id)
    \/ clearCart
    \/ openCart
    \/ closeCart
    \/ toggleCart
    \/ Rehydrate

-----------------------------------------------------------------------------
(* Shared Button component *)

\* JavaScript truthiness of an optional string
Truthy(opt) == opt # None /\ opt[1] # ""

LoadingTexts == {None, Some(""), Some("Loading...")}

ButtonProps ==
    [disabled : BOOLEAN, isLoading : BOOLEAN, loadingText : LoadingTexts,
     leftLoadingIcon : BOOLEAN, leftIcon : BOOLEAN, rightIcon : BOOLEAN]

\* Button's defaults: isLoading = false, leftLoadingIcon = false, nothing else given
DefaultButtonProps ==
    [disabled |-> FALSE, isLoading |-> FALSE, loadingText |-> None,
     leftLoadingIcon |-> FALSE, leftIcon |-> FALSE, rightIcon |-> FALSE]

Element(el, text) == [el |-> el, text |-> text]

\* const isDisabled = disabled || isLoading
BadIsDisabled(p) == p.disabled
isDisabled(p) == p.disabled \/ p.isLoading

\* The trailing spinner branch: isLoading && !leftLoadingIcon && !loadingText
BadTrailingSpinner(p) ==
    IF p.isLoading /\ ~Truthy(p.loadingText)
    THEN <<Element("Spinner", "")>> ELSE <<>>
TrailingSpinner(p) ==
    IF p.isLoading /\ ~p.leftLoadingIcon /\ ~Truthy(p.loadingText)
    THEN <<Element("Spinner", "")>> ELSE <<>>

\* The children of the rendered <button>, in document order
ButtonChildren(p) ==
    (IF p.isLoading /\ p.leftLoadingIcon
     THEN <<Element("Spinner", "")>> ELSE <<>>)
    \o (IF ~p.isLoading /\ p.leftIcon
        THEN <<Element("leftIcon", "")>> ELSE <<>>)
    \o <<Element("children", "Button")>>
    \o TrailingSpinner(p)
    \o (IF p.isLoading /\ ~p.leftLoadingIcon /\ Truthy(p.loadingText)
        THEN <<Element("sr-only", "Loading"), Element("Spinner", ""),
               Element("text", p.loadingText[1])>>
        ELSE <<>>)
    \o (IF ~p.isLoading /\ p.rightIcon
        THEN <<Element("rightIcon", "")>> ELSE <<>>)

Button(p) == [disabled |-> isDisabled(p), children |-> ButtonChildren(p)]

\* The parent renders the Button with props p.
ButtonRender(p) ==
    /\ btnProps' = p
    /\ btnDom' = Button(p)
    /\ UNCHANGED <<clicks, blockedClicks, onClickCalls>>
    /\ UNCHANGED notButton

\* The user clicks the button: a disabled <button> dispatches no click event.
ButtonClick ==
    /\ clicks < MaxClicks
    /\ clicks' = clicks + 1
    /\ blockedClicks' = blockedClicks
                          + (IF btnProps.disabled \/ btnProps.isLoading THEN 1 ELSE 0)
    /\ onClickCalls' = IF btnDom.disabled THEN onClickCalls ELSE onClickCalls + 1
    /\ UNCHANGED <<btnProps, btnDom>>
    /\ UNCHANGED notButton

ButtonInit ==
    /\ btnProps = DefaultButtonProps
    /\ btnDom = Button(DefaultButtonProps)
    /\ clicks = 0
    /\ blockedClicks = 0
    /\ onClickCalls = 0

ButtonNext ==
    \/ \E p \in ButtonProps : ButtonRender(p)
    \/ ButtonClick

-----------------------------------------------------------------------------
(* Checkout wizard *)

\* A string a user can type, as far as the schemas look at it: its length and
\* whether it matches the format (email, regex) of the field it is typed into.
Str(len, wellFormed) == [len |-> len, wellFormed |-> wellFormed]
EmptyStr == Str(0, FALSE)
GoodStr == Str(16, TRUE)

\* z.string().min(n)
MinLen(v, n) == v.len >= n
\* z.string().email(), z.string().regex()
Matches(v) == v.wellFormed
\* !!value for a string
NonEmpty(v) == v.len > 0

AddressFields ==
    {"fullName", "email", "phone", "address1", "city", "state", "postalCode", "country"}
CardFields == {"cardHolder", "cardNumber", "expiryDate", "cvv"}

\* The check each address field's schema makes
AddressFieldOk(f, v) ==
    CASE f = "fullName" -> MinLen(v, 2)
      [] f = "email" -> Matches(v)
      [] f = "phone" -> MinLen(v, 10)
      [] f = "address1" -> MinLen(v, 5)
      [] f = "city" -> MinLen(v, 2)
      [] f = "state" -> MinLen(v, 2)
      [] f = "postalCode" -> MinLen(v, 5)
      [] f = "country" -> MinLen(v, 2)

\* The check each card field's schema makes
CardFieldOk(f, v) ==
    CASE f = "cardHolder" -> MinLen(v, 2)
      [] f = "cardNumber" -> Matches(v)
      [] f = "expiryDate" -> Matches(v)
      [] f = "cvv" -> Matches(v)

\* schema.optional(): undefined passes, any other value is checked
Optional(ok, v) == v = None \/ ok

\* shippingSchema
ShippingValid(sh) == \A f \in AddressFields : AddressFieldOk(f, sh[f])

\* billingSchema: the object's fields, then the refinement
BillingValid(b) ==
    /\ \A f \in AddressFields :
          Optional(b[f] # None /\ AddressFieldOk(f, b[f][1]), b[f])
    /\ \/ b.sameAsShipping
       \/ \A f \in AddressFields : b[f] # None /\ NonEmpty(b[f][1])

\* paymentSchema: the object's fields, then the refinement
PaymentValid(pm) ==
    /\ pm.paymentMethod \in {"credit_card", "paypal", "apple_pay"}
    /\ \A f \in CardFields :
          Optional(pm[f] # None /\ CardFieldOk(f, pm[f][1]), pm[f])
    /\ \/ pm.paymentMethod # "credit_card"
       \/ \A f \in CardFields : pm[f] # None /\ NonEmpty(pm[f][1])

\* termsAccepted: z.boolean().refine(val => val === true)
BadTermsValid(t) == TRUE
TermsValid(t) == t = TRUE

\* The names handleNext validates at each step
FieldsToValidate(step) ==
    CASE step = 0 -> "shipping"
      [] step = 1 -> "billing"
      [] step = 2 -> "payment"
      [] step = 3 -> "termsAccepted"

\* methods.trigger(name): the resolver's verdict on that part of the values
Trigger(name, f) ==
    CASE name = "shipping" -> ShippingValid(f.shipping)
      [] name = "billing" -> BillingValid(f.billing)
      [] name = "payment" -> PaymentValid(f.payment)
      [] name = "termsAccepted" -> TermsValid(f.termsAccepted)

\* A value one character short for a min-length field, malformed for a format field
BadValue(f) ==
    CASE f \in {"fullName", "city", "state", "country", "cardHolder"} -> Str(1, FALSE)
      [] f \in {"address1", "postalCode"} -> Str(4, FALSE)
      [] f = "phone" -> Str(9, FALSE)
      [] OTHER -> Str(16, FALSE)

\* The fields the model types a bad value into
ProbedFields == {"fullName", "email", "postalCode", "cardHolder", "cardNumber"}

\* What the user may have typed into a group of fields: nothing, good values
\* everywhere, or good values with one bad field.
Typed(fields) ==
    {[f \in fields |-> EmptyStr], [f \in fields |-> GoodStr]}
    \cup {[f \in fields |-> IF f = g THEN BadValue(g) ELSE GoodStr] :
            g \in fields \cap ProbedFields}

Wrap(fn) == [f \in DOMAIN fn |-> Some(fn[f])]

ShippingInputs == Typed(AddressFields)
BillingInputs ==
    {Wrap(t) @@ [sameAsShipping |-> same] : t \in Typed(AddressFields), same \in BOOLEAN}
PaymentInputs ==
    {Wrap(t) @@ [paymentMethod |-> pmeth] :
        t \in Typed(CardFields), pmeth \in {"credit_card", "paypal", "apple_pay"}}

\* useForm's defaultValues
DefaultValues ==
    [shipping |-> [f \in AddressFields |-> EmptyStr],
     billing |-> Wrap([f \in AddressFields |-> EmptyStr]) @@ [sameAsShipping |-> TRUE],
     payment |-> Wrap([f \in CardFields |-> EmptyStr]) @@ [paymentMethod |-> "credit_card"],
     termsAccepted |-> FALSE]

\* The form is rendered only for a non-empty cart and until the redirect.
FormRendered == items # <<>> /\ coPc # "redirected"

\* formState.errors after the named part of the values was validated
WithError(errs, name, valid) == IF valid THEN errs \ {name} ELSE errs \cup {name}

\* The user edits the fields of the step on screen (mode: 'onChange').
EditShipping(v) ==
    /\ FormRendered /\ currentStep = 0
    /\ form' = [form EXCEPT !.shipping = v]
    /\ formErrors' = WithError(formErrors, "shipping", ShippingValid(v))
    /\ UNCHANGED <<currentStep, isSubmitting, orderId, coPc, requestsSent, lastRequest,
                   consoleErrors, onSuccessIds, routerPath, lastNav, lastSubmit>>
    /\ UNCHANGED <<cartVars, notCheckout>>

EditBilling(v) ==
    /\ FormRendered /\ currentStep = 1
    /\ form' = [form EXCEPT !.billing = v]
    /\ formErrors' = WithError(formErrors, "billing", BillingValid(v))
    /\ UNCHANGED <<currentStep, isSubmitting, orderId, coPc, requestsSent, lastRequest,
                   consoleErrors, onSuccessIds, routerPath, lastNav, lastSubmit>>
    /\ UNCHANGED <<cartVars, notCheckout>>

EditPayment(v) ==
    /\ FormRendered /\ currentStep = 2
    /\ form' = [form EXCEPT !.payment = v]
    /\ formErrors' = WithError(formErrors, "payment", PaymentValid(v))
    /\ UNCHANGED <<currentStep, isSubmitting, orderId, coPc, requestsSent, lastRequest,
                   consoleErrors, onSuccessIds, routerPath, lastNav, lastSubmit>>
    /\ UNCHANGED <<cartVars, notCheckout>>

EditTerms(v) ==
    /\ FormRendered /\ currentStep = 3
    /\ form' = [form EXCEPT !.termsAccepted = v]
    /\ formErrors' = WithError(formErrors, "termsAccepted", TermsValid(v))
    /\ UNCHANGED <<currentStep, isSubmitting, orderId, coPc, requestsSent, lastRequest,
                   consoleErrors, onSuccessIds, routerPath, lastNav, lastSubmit>>
    /\ UNCHANGED <<cartVars, notCheckout>>

\* if (result) { ... }: the step to go to; 4 stands for the call of handleSubmit
BadStepAfterNext(step, result) == IF step < 3 THEN step + 1 ELSE 4
StepAfterNext(step, result) ==
    IF result THEN (IF step < 3 THEN step + 1 ELSE 4) ELSE step

\* handleNext, up to the fetch of handleSubmit. Both buttons that call it are
\* disabled while isSubmitting; the resolver settles without yielding to the
\* event loop, so validation and the step change are one step.
handleNext ==
    LET name == FieldsToValidate(currentStep)
        result == Trigger(name, form)
        next == StepAfterNext(currentStep, result)
    IN  /\ FormRendered /\ ~isSubmitting
        /\ formErrors' = WithError(formErrors, name, result)
        /\ IF next = currentStep
           THEN UNCHANGED <<currentStep, isSubmitting, coPc, requestsSent, lastRequest,
                            lastNav>>
           ELSE IF next <= 3
           THEN /\ currentStep' = next
                /\ lastNav' = "next"
                /\ UNCHANGED <<isSubmitting, coPc, requestsSent, lastRequest>>
           ELSE /\ requestsSent < MaxOrders
                /\ isSubmitting' = TRUE
                /\ coPc' = "fetching"
                /\ requestsSent' = requestsSent + 1
                /\ lastRequest' = [step |-> currentStep, termsAccepted |-> form.termsAccepted,
                                   valid |-> result]
                /\ UNCHANGED <<currentStep, lastNav>>
        /\ UNCHANGED <<orderId, form, consoleErrors, onSuccessIds, routerPath, lastSubmit>>
        /\ UNCHANGED <<cartVars, notCheckout>>

\* handlePrevious: the mobile Back button stays enabled while submitting.
handlePrevious ==
    /\ FormRendered
    /\ currentStep > 0
    /\ currentStep' = currentStep - 1
    /\ lastNav' = "previous"
    /\ UNCHANGED <<isSubmitting, orderId, form, formErrors, coPc, requestsSent, lastRequest,
                   consoleErrors, onSuccessIds, routerPath, lastSubmit>>
    /\ UNCHANGED <<cartVars, notCheckout>>

\* onClick={() => index < currentStep && setCurrentStep(index)}, disabled={index > currentStep}
TabEnabled(index, step) == index < step

StepTab(index) ==
    /\ FormRendered
    /\ TabEnabled(index, currentStep)
    /\ currentStep' = index
    /\ lastNav' = "tab"
    /\ UNCHANGED <<isSubmitting, orderId, form, formErrors, coPc, requestsSent, lastRequest,
                   consoleErrors, onSuccessIds, routerPath, lastSubmit>>
    /\ UNCHANGED <<cartVars, notCheckout>>

\* handleSubmit after the fetch: the response is OK and carries the order id.
SubmitOk(id) ==
    /\ coPc = "fetching"
    /\ orderId' = Some(id)
    /\ PersistSet(<<>>, isOpen)
    /\ lastOp' = "clearCart"
    /\ onSuccessIds' = Append(onSuccessIds, id)
    /\ routerPath' = Some(id)
    /\ isSubmitting' = FALSE
    /\ coPc' = "redirected"
    /\ lastSubmit' = "ok"
    /\ UNCHANGED <<currentStep, form, formErrors, requestsSent, lastRequest, consoleErrors,
                   lastNav>>
    /\ UNCHANGED notCheckout

\* handleSubmit after the fetch: the response is not OK (the throw of line
\* 983) or the fetch was rejected; catch logs the error, finally resets
\* isSubmitting.
SubmitFailed(how) ==
    /\ coPc = "fetching"
    /\ consoleErrors' = consoleErrors + 1
    /\ isSubmitting' = FALSE
    /\ coPc' = "idle"
    /\ lastSubmit' = "failed"
    /\ UNCHANGED <<currentStep, orderId, form, formErrors, requestsSent, lastRequest,
                   onSuccessIds, routerPath, lastNav>>
    /\ UNCHANGED <<cartVars, notCheckout>>

\* The shopper has put a product into the cart before checking out.
CheckoutAddItem ==
    /\ coPc # "redirected"
    /\ addItemToCart([id |-> "p1", price |-> 3, quantity |-> None])
    /\ UNCHANGED notCart

CheckoutInit ==
    /\ currentStep = 0
    /\ isSubmitting = FALSE
    /\ orderId = None
    /\ form = DefaultValues
    /\ formErrors = {}
    /\ coPc = "idle"
    /\ requestsSent = 0
    /\ lastRequest = None
    /\ consoleErrors = 0
    /\ onSuccessIds = <<>>
    /\ routerPath = None
    /\ lastNav = "none"
    /\ lastSubmit = "none"

CheckoutNext ==
    \/ CheckoutAddItem
    \/ \E v \in ShippingInputs : EditShipping(v)
    \/ \E v \in BillingInputs : EditBilling(v)
    \/ \E v \in PaymentInputs : EditPayment(v)
    \/ \E v \in BOOLEAN : EditTerms(v)
    \/ handleNext
    \/ handlePrevious
    \/ \E index \in 0..3 : StepTab(index)
    \/ \E id \in {"order-1"} : SubmitOk(id)
    \/ \E how \in {"not ok", "rejected"} : SubmitFailed(how)

-----------------------------------------------------------------------------
(* Login form *)

\* LoginSchema
LoginValid(v) == Matches(v.email) /\ MinLen(v.password, 8)

LoginInputs ==
    [email : {EmptyStr, Str(16, FALSE), GoodStr}, password : {EmptyStr, Str(7, FALSE), GoodStr}]

\* What the login request can come back with:
\*   json:     fetch resolved and response.json() gave an object; ok is
\*             response.ok, message and token are the object's (optional) members
\*   bad json: fetch resolved and response.json() threw a SyntaxError
\*   rejected: fetch threw an Error
\*   thrown:   something that is not an Error was thrown
LoginResponses ==
    [kind : {"json"}, ok : BOOLEAN, message : {None, Some(""), Some("Invalid credentials")},
     token : {None, Some("jwt")}]
    \cup [kind : {"bad json"}, ok : BOOLEAN, message : {Some("Unexpected token <")},
          token : {None}]
    \cup [kind : {"rejected"}, ok : {FALSE}, message : {Some("Failed to fetch")},
          token : {None}]
    \cup [kind : {"thrown"}, ok : {FALSE}, message : {None}, token : {None}]

\* The response is a failed login: non-OK, or no parsed response at all
LoginFailed(r) == r.kind # "json" \/ ~r.ok

\* new Error(result.message || 'Failed to login').message
BadThrownMessage(message) == IF message = None THEN "" ELSE message[1]
ThrownMessage(message) == IF Truthy(message) THEN message[1] ELSE "Failed to login"

\* What the try block throws, as the message setServerError gets in catch;
\* None when nothing is thrown
CaughtMessage(r) ==
    CASE r.kind = "json" /\ ~r.ok -> Some(ThrownMessage(r.message))
      [] r.kind = "json" /\ r.ok -> None
      [] r.kind \in {"bad json", "rejected"} -> r.message
      [] r.kind = "thrown" -> Some("An unexpected error occurred. Please try again.")

\* The page is rendered with an initialError prop before the form is used.
LoginMount(initialError) ==
    /\ loginPc = "idle" /\ loginsSent = 0 /\ lastLogin = None
    /\ serverError' = IF Truthy(initialError) THEN initialError ELSE None
    /\ UNCHANGED <<loginValues, loginErrors, isLoading, showPassword, loginPc, loginsSent,
                   authToken, onSuccessCalls, loginPushes, lastLogin>>
    /\ UNCHANGED notLogin

\* The user types into the fields, which are disabled while isLoading.
LoginEdit(v) ==
    /\ ~isLoading
    /\ loginValues' = v
    /\ UNCHANGED <<loginErrors, isLoading, showPassword, serverError, loginPc, loginsSent,
                   authToken, onSuccessCalls, loginPushes, lastLogin>>
    /\ UNCHANGED notLogin

togglePasswordVisibility ==
    /\ showPassword' = ~showPassword
    /\ UNCHANGED <<loginValues, loginErrors, isLoading, serverError, loginPc, loginsSent,
                   authToken, onSuccessCalls, loginPushes, lastLogin>>
    /\ UNCHANGED notLogin

\* handleSubmit(onSubmit): the values are validated and, when valid, onSubmit
\* runs up to its fetch. The submit button is disabled while isLoading.
LoginSubmit ==
    /\ ~isLoading /\ loginPc = "idle"
    /\ loginErrors' = {f \in {"email", "password"} :
                          IF f = "email" THEN ~Matches(loginValues.email)
                                         ELSE ~MinLen(loginValues.password, 8)}
    /\ IF LoginValid(loginValues)
       THEN /\ loginsSent < MaxLogins
            /\ isLoading' = TRUE
            /\ serverError' = None
            /\ loginPc' = "fetching"
            /\ loginsSent' = loginsSent + 1
       ELSE UNCHANGED <<isLoading, serverError, loginPc, loginsSent>>
    /\ UNCHANGED <<loginValues, showPassword, authToken, onSuccessCalls, loginPushes,
                   lastLogin>>
    /\ UNCHANGED notLogin

\* onSubmit from the fetch on: try, catch and finally.
LoginSettle(r) ==
    /\ loginPc = "fetching"
    /\ IF CaughtMessage(r) = None
       THEN /\ authToken' = (IF r.token = None THEN Some("undefined") ELSE r.token)
            /\ onSuccessCalls' = onSuccessCalls + 1
            /\ loginPushes' = loginPushes + 1
            /\ UNCHANGED serverError
       ELSE /\ serverError' = CaughtMessage(r)
            /\ UNCHANGED <<authToken, onSuccessCalls, loginPushes>>
    /\ isLoading' = FALSE
    /\ loginPc' = "idle"
    /\ lastLogin' = Some(r)
    /\ UNCHANGED <<loginValues, loginErrors, showPassword, loginsSent>>
    /\ UNCHANGED notLogin

LoginInit ==
    /\ loginValues = [email |-> EmptyStr, password |-> EmptyStr]
    /\ loginErrors = {}
    /\ isLoading = FALSE
    /\ showPassword = FALSE
    /\ serverError = None
    /\ loginPc = "idle"
    /\ loginsSent = 0
    /\ authToken = None
    /\ onSuccessCalls = 0
    /\ loginPushes = 0
    /\ lastLogin = None

LoginNext ==
    \/ \E e \in {None, Some("Session expired")} : LoginMount(e)
    \/ \E v \in LoginInputs : LoginEdit(v)
    \/ togglePasswordVisibility
    \/ LoginSubmit
    \/ \E r \in LoginResponses : LoginSettle(r)

-----------------------------------------------------------------------------
(* Product filter builder *)

EmptyObject == [k \in {} |-> TRUE]

Searches == {None, Some(""), Some("chair")}
Ids == {None, Some(0), Some(7)}
PriceBounds == {None, Some(0), Some(10)}
Flags == {None, Some(TRUE), Some(FALSE)}

FilterNames ==
    {"search", "categoryId", "brandId", "minPrice", "maxPrice", "has3DModel", "inStock"}

\* The values productFilterSchema accepts for each filter
FilterValues(name) ==
    CASE name = "search" -> Searches
      [] name \in {"categoryId", "brandId"} -> Ids
      [] name \in {"minPrice", "maxPrice"} -> PriceBounds
      [] name \in {"has3DModel", "inStock"} -> Flags

\* if (categoryId), if (brandId): the truthiness of an optional number
TruthyNumber(opt) == opt # None /\ opt[1] # 0

buildProductQuery(input) ==
    [isActive |-> TRUE]
    @@ (IF Truthy(input.search)
        THEN [OR |-> <<[name |-> [contains |-> input.search[1], mode |-> "insensitive"]],
                       [description |-> [contains |-> input.search[1], mode |-> "insensitive"]],
                       [sku |-> [contains |-> input.search[1], mode |-> "insensitive"]]>>]
        ELSE EmptyObject)
    @@ (IF TruthyNumber(input.categoryId)
        THEN [categoryId |-> input.categoryId[1]] ELSE EmptyObject)
    @@ (IF TruthyNumber(input.brandId)
        THEN [brandId |-> input.brandId[1]] ELSE EmptyObject)
    @@ (IF input.minPrice # None \/ input.maxPrice # None
        THEN [price |->
                (IF input.minPrice # None THEN [gte |-> input.minPrice[1]] ELSE EmptyObject)
                @@ (IF input.maxPrice # None THEN [lte |-> input.maxPrice[1]]
                                             ELSE EmptyObject)]
        ELSE EmptyObject)
    @@ (IF input.has3DModel # None
        THEN [model3dId |-> IF input.has3DModel[1] THEN [not |-> "null"] ELSE "null"]
        ELSE EmptyObject)
    @@ (IF input.inStock # None
        THEN [stock |-> IF input.inStock[1] THEN [gt |-> 0] ELSE [equals |-> 0]]
        ELSE EmptyObject)

\* getProducts, called with the previous filters and one of them changed
getProducts(name, value) ==
    LET input == [filterInput EXCEPT ![name] = value]
    IN  /\ filterInput' = input
        /\ where' = Some(buildProductQuery(input))
        /\ UNCHANGED notFilter

FilterInit ==
    /\ filterInput = [n \in FilterNames |-> None]
    /\ where = None

FilterNext ==
    \E name \in FilterNames : \E value \in FilterValues(name) : getProducts(name, value)

-----------------------------------------------------------------------------
(* formatters.truncateText and auth.extractTokenFromHeader.  A string is the *)
(* sequence of its characters.                                               *)

\* String.prototype.substring(start, end): both indices are clamped to
\* 0..length and swapped when start > end.
Clamp(n, len) == IF n < 0 THEN 0 ELSE IF n > len THEN len ELSE n

Substring(str, start, end) ==
    LET a == Clamp(start, Len(str))
        b == Clamp(end, Len(str))
    IN  IF a <= b THEN SubSeq(str, a + 1, b) ELSE SubSeq(str, b + 1, a)

\* String.prototype.startsWith(prefix)
BadStartsWith(str, prefix) == Len(str) >= Len(prefix)
StartsWith(str, prefix) ==
    Len(str) >= Len(prefix) /\ SubSeq(str, 1, Len(prefix)) = prefix

TextChars == {"a", "b"}
Texts == UNION {[1..n -> TextChars] : n \in 0..MaxTextLen}
Lengths == {None} \cup {Some(n) : n \in 0..MaxTextLen}
Ellipses == {None, Some(<<>>), Some(<<".">>), Some(<<".", ".", ".">>)}

\* the parameter defaults: length = 50, ellipsis = '...'
DefaultLength == 50
DefaultEllipsis == <<".", ".", ".">>
OrDefault(arg, default) == IF arg = None THEN default ELSE arg[1]

truncateText(text, lengthArg, ellipsisArg) ==
    LET length == OrDefault(lengthArg, DefaultLength)
        ellipsis == OrDefault(ellipsisArg, DefaultEllipsis)
    IN  IF Len(text) <= length THEN text
        ELSE Substring(text, 0, length - Len(ellipsis)) \o ellipsis

\* A caller truncates a text.
CallTruncateText(text, lengthArg, ellipsisArg) ==
    /\ truncateArgs' = Some([text |-> text, length |-> lengthArg, ellipsis |-> ellipsisArg])
    /\ truncated' = truncateText(text, lengthArg, ellipsisArg)
    /\ UNCHANGED notFormat

FormatInit ==
    /\ truncateArgs = None
    /\ truncated = <<>>

FormatNext ==
    \E text \in Texts, lengthArg \in Lengths, ellipsisArg \in Ellipses :
        CallTruncateText(text, lengthArg, ellipsisArg)

\* 'Bearer '
Bearer == <<"B", "e", "a", "r", "e", "r", " ">>

HeaderPrefixes ==
    {<<>>, Bearer, <<"b", "e", "a", "r", "e", "r", " ">>, <<"B", "e", "a", "r", "e", "r">>,
     <<" ">> \o Bearer, <<"B", "a", "s", "i", "c", " ">>}
TokenChars == {"x", "y", " "}
Tokens == UNION {[1..n -> TokenChars] : n \in 0..MaxTokenLen}
AuthHeaders == {None} \cup {Some(p \o t) : p \in HeaderPrefixes, t \in Tokens}

\* The result is None for null, else the string.
extractTokenFromHeader(header) ==
    IF header = None \/ header[1] = <<>> \/ ~StartsWith(header[1], Bearer)
    THEN None
    ELSE Some(Substring(header[1], 7, Len(header[1])))

\* A caller reads the token of a request's Authorization header.
CallExtractToken(header) ==
    /\ authHeader' = Some(header)
    /\ extracted' = extractTokenFromHeader(header)
    /\ UNCHANGED notAuth

AuthInit ==
    /\ authHeader = None
    /\ extracted = None

AuthNext ==
    \E header \in AuthHeaders : CallExtractToken(header)

-----------------------------------------------------------------------------
(* useCartActions.debouncedUpdateItem.  Time is in ms and advances in steps  *)
(* of 100 ms.  The event loop is otherwise idle: a timer's callback runs at   *)
(* the time it is due, before the input events of that instant.              *)

\* setTimeout(..., 300)
Delay == 300

DebounceIds == {"p1", "p2"}
DebounceQuantities == {0, MaxQty}

\* clearTimeout(id): the pending timer of that id, if any, is dropped
clearTimeout(pending, id) == {t \in pending : t.id # id}

\* if (window.updateItemTimeout) { clearTimeout(window.updateItemTimeout); }
\* Timer ids are positive, so every id is truthy.
BadClearPending(pending, handle) == pending
ClearPending(pending, handle) ==
    IF handle # None /\ handle[1] # 0 THEN clearTimeout(pending, handle[1]) ELSE pending

debouncedUpdateItem(id, quantity) ==
    /\ Len(calls) < MaxCalls
    /\ \A t \in timers : t.due > now
    /\ timers' = ClearPending(timers, updateItemTimeout)
                   \cup {[id |-> timerIds + 1, due |-> now + Delay, item |-> id,
                          quantity |-> quantity, call |-> Len(calls) + 1]}
    /\ timerIds' = timerIds + 1
    /\ updateItemTimeout' = Some(timerIds + 1)
    /\ calls' = Append(calls, [time |-> now, id |-> id, quantity |-> quantity])
    /\ UNCHANGED <<now, applied, cartVars, notDebounce>>

\* The callback of a timer that is due: () => { updateItem(id, quantity); }
TimeoutFires(t) ==
    /\ t \in timers
    /\ t.due <= now
    /\ updateItemInCart(t.item, t.quantity)
    /\ timers' = timers \ {t}
    /\ applied' = Append(applied, [time |-> now, id |-> t.item, quantity |-> t.quantity,
                                   call |-> t.call])
    /\ UNCHANGED <<now, timerIds, updateItemTimeout, calls, notDebounce>>

\* 100 ms pass; no timer is left behind.
Tick ==
    /\ now < MaxTicks * 100
    /\ \A t \in timers : t.due > now
    /\ now' = now + 100
    /\ UNCHANGED <<timers, timerIds, updateItemTimeout, calls, applied, cartVars, notDebounce>>

\* The shopper has put products into the cart before changing quantities.
DebounceAddItem(id) ==
    /\ calls = <<>> /\ now = 0
    /\ FindIndex(items, id) = -1
    /\ addItemToCart([id |-> id, price |-> 3, quantity |-> None])
    /\ UNCHANGED <<debounceVars, notDebounce>>

DebounceInit ==
    /\ now = 0
    /\ timers = {}
    /\ timerIds = 0
    /\ updateItemTimeout = None
    /\ calls = <<>>
    /\ applied = <<>>

DebounceNext ==
    \/ \E id \in DebounceIds : DebounceAddItem(id)
    \/ \E id \in DebounceIds, quantity \in DebounceQuantities : debouncedUpdateItem(id, quantity)
    \/ \E t \in timers : TimeoutFires(t)
    \/ Tick

-----------------------------------------------------------------------------
(* productsRouter.updateProduct.  Every prisma call is awaited on its own,  *)
(* outside any transaction, so each is a step of its own; a call may reject  *)
(* (lost connection, constraint violation), which ends the mutation.  The    *)
(* server runs the mutations of different requests interleaved at their      *)
(* awaits.                                                                   *)

\* The requests that may be in flight at once
Requests == {"r1", "r2"}

RowIds == {"prod-1", "prod-2"}
Names == {"Chair", "Desk"}
ImageLists == {<<>>, <<"new-1.png">>, <<"new-2.png", "new-3.png">>}

\* updateProductSchema: id is required, every other field is optional
UpdateInputs ==
    [id : RowIds, name : {None} \cup {Some(n) : n \in Names},
     images : {None} \cup {Some(l) : l \in ImageLists}]

\* data: updateData: the fields the input gives replace those of the row
UpdateRow(row, input) ==
    [name |-> IF input.name = None THEN row.name ELSE input.name[1]]

\* The mutation of request r starts: it asks for the product (findUnique).
updateProduct(r, input) ==
    /\ upPc[r] = "idle"
    /\ updates < MaxUpdates
    /\ updates' = updates + 1
    /\ upInput' = [upInput EXCEPT ![r] = Some(input)]
    /\ upBefore' = [upBefore EXCEPT
                      ![r] = [products |-> products, productImages |-> productImages]]
    /\ upPc' = [upPc EXCEPT ![r] = "findUnique"]
    /\ UNCHANGED <<products, productImages, lastUpdate, notProduct>>

\* if (images): an array, even an empty one, is truthy
ImagesGiven(input) == input.images # None

\* findUnique returned: NOT_FOUND is thrown for an unknown id; else the next
\* call is deleteMany when images are given, and update otherwise.
AfterFindUnique(input) == IF ImagesGiven(input) THEN "deleteMany" ELSE "update"

FindUniqueReturns(r) ==
    /\ upPc[r] = "findUnique"
    /\ IF upInput[r][1].id \in DOMAIN products
       THEN /\ upPc' = [upPc EXCEPT ![r] = AfterFindUnique(upInput[r][1])]
            /\ UNCHANGED lastUpdate
       ELSE /\ upPc' = [upPc EXCEPT ![r] = "idle"]
            /\ lastUpdate' = [lastUpdate EXCEPT ![r] = "not found"]
    /\ UNCHANGED <<products, productImages, upInput, upBefore, updates, notProduct>>

\* productImage.deleteMany({ where: { productId: id } }) succeeded
DeleteManyReturns(r) ==
    /\ upPc[r] = "deleteMany"
    /\ productImages' = [productImages EXCEPT ![upInput[r][1].id] = <<>>]
    /\ upPc' = [upPc EXCEPT ![r] = "createMany"]
    /\ UNCHANGED <<products, upInput, upBefore, lastUpdate, updates, notProduct>>

\* productImage.createMany({ data: images.map(...) }) succeeded: the rows are
\* added to those the table holds
CreateManyReturns(r) ==
    /\ upPc[r] = "createMany"
    /\ productImages' =
          [productImages EXCEPT ![upInput[r][1].id] = @ \o upInput[r][1].images[1]]
    /\ upPc' = [upPc EXCEPT ![r] = "update"]
    /\ UNCHANGED <<products, upInput, upBefore, lastUpdate, updates, notProduct>>

\* product.update({ where: { id }, data: updateData }) succeeded
UpdateReturns(r) ==
    /\ upPc[r] = "update"
    /\ products' = [products EXCEPT ![upInput[r][1].id] = UpdateRow(@, upInput[r][1])]
    /\ upPc' = [upPc EXCEPT ![r] = "idle"]
    /\ lastUpdate' = [lastUpdate EXCEPT ![r] = "ok"]
    /\ UNCHANGED <<productImages, upInput, upBefore, updates, notProduct>>

\* The awaited prisma call rejected: the mutation throws, the database keeps
\* what the earlier calls wrote.
CallRejects(r) ==
    /\ upPc[r] \in {"findUnique", "deleteMany", "createMany", "update"}
    /\ upPc' = [upPc EXCEPT ![r] = "idle"]
    /\ lastUpdate' = [lastUpdate EXCEPT ![r] = "failed"]
    /\ UNCHANGED <<products, productImages, upInput, upBefore, updates, notProduct>>

ProductInit ==
    /\ products = [id \in {"prod-1"} |-> [name |-> "Chair"]]
    /\ productImages = [id \in {"prod-1"} |-> <<"old-1.png", "old-2.png">>]
    /\ upPc = [r \in Requests |-> "idle"]
    /\ upInput = [r \in Requests |-> None]
    /\ upBefore = [r \in Requests |-> None]
    /\ lastUpdate = [r \in Requests |-> "none"]
    /\ updates = 0

\* One request at a time
ProductNext ==
    \/ \E input \in UpdateInputs : updateProduct("r1", input)
    \/ FindUniqueReturns("r1")
    \/ DeleteManyReturns("r1")
    \/ CreateManyReturns("r1")
    \/ UpdateReturns("r1")
    \/ CallRejects("r1")

\* Requests in flight together
ConcurrentNext ==
    \/ \E r \in Requests, input \in UpdateInputs : updateProduct(r, input)
    \/ \E r \in Requests : FindUniqueReturns(r)
    \/ \E r \in Requests : DeleteManyReturns(r)
    \/ \E r \in Requests : CreateManyReturns(r)
    \/ \E r \in Requests : UpdateReturns(r)
    \/ \E r \in Requests : CallRejects(r)

-----------------------------------------------------------------------------
vars == <<cartVars, buttonVars, checkoutVars, loginVars, serverVars, debounceVars>>

Init ==
    /\ CartInit /\ ButtonInit /\ CheckoutInit /\ LoginInit /\ FilterInit
    /\ FormatInit /\ AuthInit /\ DebounceInit /\ ProductInit

CartSpec == Init /\ [][CartNext]_vars

ButtonSpec == Init /\ [][ButtonNext]_vars

CheckoutSpec == Init /\ [][CheckoutNext]_vars

LoginSpec == Init /\ [][LoginNext]_vars

FilterSpec == Init /\ [][FilterNext]_vars

FormatSpec == Init /\ [][FormatNext]_vars

AuthSpec == Init /\ [][AuthNext]_vars

DebounceSpec == Init /\ [][DebounceNext]_vars

ProductSpec == Init /\ [][ProductNext]_vars

ConcurrentSpec == Init /\ [][ConcurrentNext]_vars

-----------------------------------------------------------------------------
(* Cart store: properties *)

\* C1: the cart is keyed by item id: in every reachable cart no two entries
\* of items have the same id.
C1_UniqueIds ==
    \A i, j \in 1..Len(items) : i # j => items[i].id # items[j].id

\* An addItem for an id already in the cart has run on a cart of several items.
C1_Witness ==
    /\ lastOp = "addItem"
    /\ Len(items) >= 2
    /\ \E k \in 1..Len(items) : items[k].quantity = MaxQty

\* The sums the totals are meant to be, taken item by item from the front.
RECURSIVE SumOfQuantities(_)
SumOfQuantities(s) ==
    IF s = <<>> THEN 0 ELSE Head(s).quantity + SumOfQuantities(Tail(s))

RECURSIVE SumOfLineTotals(_)
SumOfLineTotals(s) ==
    IF s = <<>> THEN 0
    ELSE Head(s).price * Head(s).quantity + SumOfLineTotals(Tail(s))

\* C2: in every reachable cart getSubtotal() is the sum of price * quantity
\* over the items and getItemsCount() is the sum of the quantities; both are
\* 0 for the empty cart.
C2_TotalsSum ==
    /\ getSubtotal = SumOfLineTotals(items)
    /\ getItemsCount = SumOfQuantities(items)
    /\ items = <<>> => getSubtotal = 0 /\ getItemsCount = 0

\* A cart of three items with different prices and quantities.
C2_Witness ==
    /\ Len(items) = 3
    /\ \E i, j \in 1..3 : /\ items[i].price # items[j].price
                           /\ items[i].quantity # items[j].quantity
    /\ getSubtotal > getItemsCount

\* C8: after every cart operation the persisted value holds the items and
\* nothing else, and a store rebuilt from it has exactly the current items and
\* isOpen = FALSE, whatever isOpen is now.
C8_OnlyItemsPersisted ==
    /\ storage = None => lastOp \in {"init", "rehydrate"} /\ items = <<>>
    /\ storage # None =>
          /\ DOMAIN JSONParse(storage[1]) = {"items"}
          /\ JSONParse(storage[1]).items = items
    /\ Hydrate(storage) = [items |-> items, isOpen |-> FALSE]

\* The cart is open and not empty when its state is persisted.
C8_Witness ==
    /\ isOpen = TRUE
    /\ Len(items) >= 2
    /\ storage # None
    /\ lastOp = "updateItem"


\* C16: addItem for an id already in the cart adds the given quantity (1
\* when none is given) to that item's quantity and changes no other item, not
\* the order, not the number of entries and not isOpen; addItem for an id not
\* in the cart appends one entry with the given quantity (1 when none is
\* given) and sets isOpen to true.
C16_AddItemFrame ==
    [][\A id \in ProductIds, p \in Prices, q \in QtyInputs :
          addItem([id |-> id, price |-> p, quantity |-> q]) =>
            LET given == IF q = None THEN 1 ELSE q[1]
            IN  IF \E k \in 1..Len(items) : items[k].id = id
                THEN /\ Len(items') = Len(items)
                     /\ \A k \in 1..Len(items) :
                          items'[k] = IF items[k].id = id
                                      THEN [items[k] EXCEPT !.quantity = @ + given]
                                      ELSE items[k]
                     /\ isOpen' = isOpen
                ELSE /\ items' = Append(items, [id |-> id, price |-> p, quantity |-> given])
                     /\ isOpen' = TRUE]_vars

\* C17: updateItem(id, q) removes the item with that id when q <= 0 and sets
\* its quantity to exactly q when q > 0, changing no other item and not
\* isOpen; when no item has that id the items are unchanged.
C17_UpdateItemFrame ==
    [][\A id \in ProductIds, q \in -1..MaxQty :
          updateItem(id, q) =>
            /\ isOpen' = isOpen
            /\ IF \A k \in 1..Len(items) : items[k].id # id
               THEN items' = items
               ELSE IF q <= 0
               THEN items' = SelectSeq(items, LAMBDA it : it.id # id)
               ELSE /\ Len(items') = Len(items)
                    /\ \A k \in 1..Len(items) :
                         items'[k] = IF items[k].id = id
                                     THEN [id |-> id, price |-> items[k].price,
                                           quantity |-> q]
                                     ELSE items[k]]_vars

\* updateItem has run on a cart that holds several items of different
\* quantities.
C17_Witness ==
    /\ lastOp = "updateItem"
    /\ Len(items) = 3
    /\ items[1].quantity = MaxQty
    /\ items[2].quantity = 1

\* C18: shipping is the fixed rate 10 for a cart with at least one item and 0
\* for the empty cart, tax is 7% of the subtotal, total is subtotal +
\* shipping + tax, and the total of the empty cart is 0 (amounts in
\* hundredths).
C18_Totals ==
    LET t == useCartTotals
    IN  /\ t.subtotal = SumOfLineTotals(items) * 100
        /\ t.shipping = IF Len(items) >= 1 THEN 1000 ELSE 0
        /\ t.tax * 100 = t.subtotal * 7
        /\ t.total = t.subtotal + t.shipping + t.tax
        /\ items = <<>> => t.total = 0

\* A cart of two items worth 16.00: 1.12 of tax, 10.00 of shipping, 27.12 in
\* total.
C18_Witness ==
    /\ Len(items) = 2
    /\ useCartTotals.subtotal = 1600
    /\ useCartTotals.tax = 112
    /\ useCartTotals.total = 2712

-----------------------------------------------------------------------------
(* Shared Button: properties *)

CountOf(children, el) ==
    Cardinality({k \in 1..Len(children) : children[k].el = el})

\* C5: the button is disabled exactly when disabled or isLoading is true; a
\* click made while it is disabled never invokes onClick and every other
\* click invokes it exactly once.
C5_DisabledBlocksClicks ==
    /\ btnDom.disabled <=> (btnProps.disabled \/ btnProps.isLoading)
    /\ onClickCalls = clicks - blockedClicks

\* Clicks were made both on a loading (not disabled) button and on an enabled one.
C5_Witness ==
    /\ btnProps.isLoading /\ ~btnProps.disabled
    /\ blockedClicks >= 1
    /\ onClickCalls >= 1

C7_LoadingTextShown ==
    (btnProps.isLoading /\ Truthy(btnProps.loadingText)) =>
        \E k \in 1..Len(btnDom.children) :
            btnDom.children[k] = Element("text", btnProps.loadingText[1])

-----------------------------------------------------------------------------
(* Checkout wizard: properties *)

\* The error messages the form renders: those of the step on screen.
ErrorShown == FieldsToValidate(currentStep) \in formErrors

\* C3: when the order-creation request fails (non-OK response or rejected
\* fetch), the form ends in a state in which an error is shown in the UI.
C3_FailureShown ==
    (lastSubmit = "failed" /\ coPc = "idle") => ErrorShown

\* C4: the current step stays in 0..3 and every earlier step's section is
\* valid; a step change is either handleNext going one step forward after the
\* current step's section validated, or handlePrevious or a step tab going to
\* an earlier step.
C4_Sequential ==
    /\ [](/\ currentStep \in 0..3
          /\ \A k \in 0..(currentStep - 1) : Trigger(FieldsToValidate(k), form))
    /\ [][currentStep' # currentStep =>
            \/ /\ lastNav' = "next"
               /\ currentStep' = currentStep + 1
               /\ Trigger(FieldsToValidate(currentStep), form)
               /\ form' = form
            \/ /\ lastNav' \in {"previous", "tab"}
               /\ currentStep' < currentStep]_vars

\* The review step was reached with a billing address of its own and a card.
C4_Witness ==
    /\ currentStep = 3
    /\ lastNav = "next"
    /\ ~form.billing.sameAsShipping
    /\ form.payment.paymentMethod = "credit_card"

\* C13: when sameAsShipping is true the other billing fields are not
\* validated: whatever they hold, the form's default empty strings included,
\* the billing section has no validation error.
C13_SameAsShippingSkipsBilling ==
    form.billing.sameAsShipping => "billing" \notin formErrors

\* C14: the card details are validated only for credit_card: with paypal or
\* apple_pay selected, whatever the card fields hold, the form's default empty
\* strings included, the payment section has no validation error.
C14_CardOnlyForCreditCard ==
    form.payment.paymentMethod \in {"paypal", "apple_pay"} => "payment" \notin formErrors

\* C15: every order-creation request was sent from the review step (step 3),
\* by a handleNext whose validation of termsAccepted succeeded on the value
\* true.
C15_RequestOnlyFromReview ==
    requestsSent > 0 =>
        /\ lastRequest.step = 3
        /\ lastRequest.valid
        /\ lastRequest.termsAccepted = TRUE

\* A second request was sent after the first one failed.
C15_Witness ==
    /\ requestsSent = MaxOrders
    /\ lastSubmit = "failed"
    /\ coPc = "fetching"

-----------------------------------------------------------------------------
(* Login form: properties *)

\* C9: when a submission ends, isLoading is false again; when it ends in a
\* failure (non-OK response, or the request threw), serverError holds the
\* failure message, which the banner shows, no auth token is written,
\* onSuccess is not called and router.push is not called.
C9_FailedLoginSurfaced ==
    /\ [](loginPc = "idle" => ~isLoading)
    /\ [][(loginPc = "fetching" /\ loginPc' = "idle") =>
            /\ isLoading' = FALSE
            /\ LoginFailed(lastLogin'[1]) =>
                  /\ Truthy(serverError')
                  /\ Truthy(lastLogin'[1].message) => serverError' = lastLogin'[1].message
                  /\ authToken' = authToken
                  /\ onSuccessCalls' = onSuccessCalls
                  /\ loginPushes' = loginPushes]_vars

\* A login that failed with a non-OK response without a message, after an
\* earlier login had succeeded.
C9_Witness ==
    /\ lastLogin # None
    /\ lastLogin[1].kind = "json" /\ ~lastLogin[1].ok /\ lastLogin[1].message = None
    /\ serverError = Some("Failed to login")
    /\ authToken = Some("jwt")
    /\ onSuccessCalls = 1
    /\ ~isLoading

-----------------------------------------------------------------------------
(* Product filter builder: properties *)

\* C10: the where clause always requires isActive = true and holds a
\* condition for exactly the filters the input provides.
C10_ConditionPerFilter ==
    where # None =>
        LET w == where[1]
            has(key) == key \in DOMAIN w
            provided(name) == filterInput[name] # None
        IN  /\ w.isActive = TRUE
            /\ provided("search") <=> has("OR")
            /\ provided("categoryId") <=> has("categoryId")
            /\ provided("brandId") <=> has("brandId")
            /\ provided("minPrice") <=> (has("price") /\ "gte" \in DOMAIN w.price)
            /\ provided("maxPrice") <=> (has("price") /\ "lte" \in DOMAIN w.price)
            /\ provided("has3DModel") <=> has("model3dId")
            /\ provided("inStock") <=> has("stock")

-----------------------------------------------------------------------------
(* truncateText and extractTokenFromHeader: properties *)

EndsWith(str, suffix) ==
    /\ Len(str) >= Len(suffix)
    /\ SubSeq(str, Len(str) - Len(suffix) + 1, Len(str)) = suffix

\* C11: truncateText returns the text unchanged when it is at most length
\* characters long, and otherwise a string of at most length characters
\* that ends with the ellipsis.
C11_TruncatedFits ==
    truncateArgs # None =>
        LET text == truncateArgs[1].text
            length == IF truncateArgs[1].length = None THEN 50
                      ELSE truncateArgs[1].length[1]
            ellipsis == IF truncateArgs[1].ellipsis = None THEN <<".", ".", ".">>
                        ELSE truncateArgs[1].ellipsis[1]
        IN  IF Len(text) <= length
            THEN truncated = text
            ELSE Len(truncated) <= length /\ EndsWith(truncated, ellipsis)

HasBearer(str) ==
    /\ Len(str) >= 7
    /\ <<str[1], str[2], str[3], str[4], str[5], str[6], str[7]>>
         = <<"B", "e", "a", "r", "e", "r", " ">>

\* C12: extractTokenFromHeader returns null when the header is absent, empty
\* or does not start with "Bearer ", and otherwise the header with that
\* 7-character prefix removed and nothing else changed.
C12_TokenAfterBearer ==
    authHeader # None =>
        LET header == authHeader[1]
        IN  IF header = None \/ header[1] = <<>> \/ ~HasBearer(header[1])
            THEN extracted = None
            ELSE /\ extracted # None
                 /\ header[1] = <<"B", "e", "a", "r", "e", "r", " ">> \o extracted[1]

\* A token of full length, with a space inside, was taken out of a header.
C12_Witness ==
    /\ authHeader # None
    /\ extracted # None
    /\ Len(extracted[1]) = MaxTokenLen
    /\ extracted[1][2] = " "

-----------------------------------------------------------------------------
(* debouncedUpdateItem: properties *)

\* The updateItem calls that the timer of the i-th debouncedUpdateItem call made
RunsOf(i) == {k \in 1..Len(applied) : applied[k].call = i}

\* C19: of debouncedUpdateItem calls less than 300 ms apart only the last one
\* reaches the store: a call followed by another less than 300 ms later never
\* runs updateItem, the last call of such a series runs it exactly once, 300
\* ms after the call and with the call's arguments, and the store changes
\* only then, as updateItem of those arguments changes it.
C19_Debounced ==
    /\ [](\A i \in 1..Len(calls) :
            LET superseded == i < Len(calls) /\ calls[i + 1].time - calls[i].time < 300
            IN  /\ superseded => RunsOf(i) = {}
                /\ (~superseded /\ (i < Len(calls) \/ now > calls[i].time + 300))
                      => Cardinality(RunsOf(i)) = 1
                /\ Cardinality(RunsOf(i)) <= 1
                /\ \A k \in RunsOf(i) :
                      /\ applied[k].time = calls[i].time + 300
                      /\ applied[k].id = calls[i].id
                      /\ applied[k].quantity = calls[i].quantity)
    /\ [][/\ calls' # calls => (items' = items /\ isOpen' = isOpen /\ storage' = storage)
          /\ applied' # applied =>
                LET run == applied'[Len(applied')]
                IN  /\ isOpen' = isOpen
                    /\ items' = IF run.quantity <= 0
                                THEN SelectSeq(items, LAMBDA it : it.id # run.id)
                                ELSE [k \in 1..Len(items) |->
                                        IF items[k].id = run.id
                                        THEN [id |-> run.id, price |-> items[k].price,
                                              quantity |-> run.quantity]
                                        ELSE items[k]]]_vars

\* Three calls for two products were made less than 300 ms apart, and the
\* store got the last one only.
C19_Witness ==
    /\ Len(calls) = 3
    /\ calls[2].time - calls[1].time \in 1..299
    /\ calls[3].time - calls[2].time \in 1..299
    /\ calls[1].id # calls[3].id
    /\ calls[2].quantity # calls[3].quantity
    /\ Len(applied) = 1
    /\ applied[1].call = 3
    /\ Len(items) = 2
    /\ lastOp = "updateItem"

-----------------------------------------------------------------------------
(* updateProduct: properties *)

\* C20: updateProduct is all-or-nothing: after a mutation that failed, the
\* product rows and the images of every product are what they were when the
\* mutation started; in particular no product has lost its images.
C20_AllOrNothing ==
    (lastUpdate["r1"] = "failed" /\ upPc["r1"] = "idle") =>
        /\ products = upBefore["r1"].products
        /\ productImages = upBefore["r1"].productImages

\* C21: when two updateProduct calls that both carry an image list for the
\* same product have both completed, however their steps interleaved, the
\* product's images are the image list of one of the two calls, never a mix
\* or a union of both.
C21_ImagesOfOneCall ==
    (/\ \A r \in {"r1", "r2"} : upPc[r] = "idle" /\ lastUpdate[r] = "ok"
     /\ upInput["r1"][1].id = upInput["r2"][1].id
     /\ upInput["r1"][1].images # <<>>
     /\ upInput["r2"][1].images # <<>>)
    => \/ productImages[upInput["r1"][1].id] = upInput["r1"][1].images[1]
       \/ productImages[upInput["r1"][1].id] = upInput["r2"][1].images[1]

=============================================================================
